---- MODULE Spec2Model ----
(***************************************************************************)
(* FRI (Fast Reed-Solomon IOP of Proximity) engine: prime-field            *)
(* arithmetic (finite_field.rs), polynomials and folding (polynomial.rs),  *)
(* the Fiat-Shamir transcript (prover.rs) and the commit / query / verify  *)
(* phases (fri.rs).                                                        *)
(*                                                                         *)
(* Eleven specifications share the variables:                               *)
(*   SpecField  a calculator applying the field operations to operands     *)
(*   SpecFold   repeated fold_polynomial on a coefficient list             *)
(*   SpecTranscript  push, pull and the Fiat-Shamir derivations            *)
(*   SpecEuclid extended_euclidean_algorithm on positive integers          *)
(*   SpecEval   Polynomial::evaluate and evaluate_domain                   *)
(*   SpecFoldEval  fold_polynomial_evaluation on a layer's evaluations     *)
(*   SpecBytes  FieldElement::from_bytes and Field::sample                 *)
(*   SpecRoot   the loop of Field::primitive_nth_root, step by step        *)
(*   SpecCommit fri_commit on a transcript that may already hold objects   *)
(*   SpecProver the prover's side: fri_commit and fri_query_phase          *)
(*   Spec       the protocol: fri_commit, fri_query_phase, verify_fri      *)
(*              and a caller that may alter the decommitments              *)
(***************************************************************************)
EXTENDS Integers, Sequences, FiniteSets, TLC

VARIABLES
    \* SpecField: operands, accumulator, operations applied, panic message,
    \* outcome of the last `==`
    x, y, acc, ops, err, cmp,
    \* SpecFold: polynomial before the last fold, challenge, current polynomial
    prev, beta, poly, nfold,
    \* Spec: the caller's ProofStream, the layers and final constant returned by
    \* fri_commit, the decommitments returned by fri_query_phase, the outcome of
    \* the last verify_fri, and SHA-256 as far as it has been evaluated
    transcript, fri_layers, last_value, decommitments, verified, oracle,
    \* Spec, history: the phase reached, the arguments of the last fri_commit
    \* and fri_query_phase, the changes a caller made to the decommitments
    phase, number_layers, commit_in, alphas, query_in, tampers,
    \* SpecTranscript: the challenge prover_fiat_shamir returned at each length of
    \* the log, the outcome of the last verifier_fiat_shamir, and the outcome of
    \* every call of pull
    pchallenge, vchallenge, pulls,
    \* SpecEuclid, SpecEval: the arguments and the result of the last call of
    \* extended_euclidean_algorithm, and of evaluate or evaluate_domain
    euclid, evaluated,
    \* SpecFoldEval: the arguments and the result of the last call of
    \* fold_polynomial_evaluation
    folded,
    \* SpecBytes: the arguments and the result of the last call of from_bytes
    \* or sample
    reduced,
    \* SpecRoot: the locals of primitive_nth_root
    nth

fieldVars == <<x, y, acc, ops, cmp>>
foldVars == <<prev, beta, poly, nfold>>
friVars ==
    <<transcript, fri_layers, last_value, decommitments, verified, oracle,
      phase, number_layers, commit_in, alphas, query_in, tampers>>
fsVars == <<pchallenge, vchallenge, pulls>>
pureVars == <<euclid, evaluated, folded, reduced, nth>>
vars == <<fieldVars, err, foldVars, friVars, fsVars, pureVars>>

(***************************************************************************)
(* Bounds of the model                                                     *)
(***************************************************************************)
MaxOps == 2
MaxCoeffs == 4
MaxFolds == 3
MaxLayers == 2
MaxDomain == 2
MaxQueries == 1
MaxTamper == 1
MaxPush == 2
MaxEuclid == 12

(***************************************************************************)
(* finite_field.rs                                                         *)
(***************************************************************************)

\* Rust's `/` on integers truncates toward zero
TruncDiv(a, b) ==
    LET abs(n) == IF n < 0 THEN -n ELSE n
        q == abs(a) \div abs(b)
    IN IF (a < 0) = (b < 0) THEN q ELSE -q

\* modulo::Mod::modulo: the non-negative remainder for a positive modulus
modulo(n, m) == n % m

Field_new(prime) == [prime |-> prime]

FieldElement_new(num, field) == [num |-> modulo(num, field.prime), field |-> field]

zero(field) == [num |-> 0, field |-> field]

one(field) == [num |-> 1, field |-> field]

\* the while loop of extended_euclidean_algorithm, on (old_r, r, old_s, s, old_t, t)
RECURSIVE eea_loop(_, _, _, _, _, _)
eea_loop(old_r, r, old_s, s, old_t, t) ==
    IF r = 0
    THEN <<old_r, old_s, old_t>>
    ELSE LET quotient == TruncDiv(old_r, r)
         IN eea_loop(r, old_r - quotient * r,
                     s, old_s - quotient * s,
                     t, old_t - quotient * t)

eea_swapped(a, b) ==
    LET r == eea_loop(a, b, 1, 0, 0, 1)
    IN <<r[1], r[3], r[2]>>

extended_euclidean_algorithm(a, b) == eea_loop(a, b, 1, 0, 0, 1)

\* impl PartialEq: the numeric values alone are compared
eq(left, right) == left.num = right.num

\* impl Add panics when the primes differ
add_panics(left, right) == left.field.prime # right.field.prime

add(left, right) ==
    [num |-> modulo(left.num + right.num, left.field.prime), field |-> left.field]

Field_multiply(self, left, right) ==
    [num |-> modulo(left.num * right.num, self.prime), field |-> self]

Field_subtract(self, left, right) ==
    [num |-> modulo(self.prime + left.num - right.num, self.prime), field |-> self]

\* assert!(right.num != 0, "divide by 0")
Field_divide_panics(self, left, right) == right.num = 0

\* the first component of the triple is bound to `a`
Field_divide(self, left, right) ==
    LET a == extended_euclidean_algorithm(right.num, self.prime)[1]
    IN [num |-> modulo(left.num * a, self.prime), field |-> self]

Field_inverse(self, operand) ==
    LET a == extended_euclidean_algorithm(operand.num, self.prime)[1]
    IN [num |-> a, field |-> self]

Field_negate(self, operand) ==
    [num |-> modulo(self.prime - operand.num, self.prime), field |-> self]

mul(left, right) == Field_multiply(left.field, left, right)

sub(left, right) == Field_subtract(left.field, left, right)

div_panics(left, right) == Field_divide_panics(left.field, left, right)

div(left, right) == Field_divide(left.field, left, right)

neg(operand) == Field_negate(operand.field, operand)

inverse(self) == Field_inverse(self.field, self)

RECURSIVE IntPow(_, _)
IntPow(b, e) == IF e = 0 THEN 1 ELSE b * IntPow(b, e - 1)

pow(self, exponent) ==
    [num |-> modulo(IntPow(self.num, exponent), self.field.prime), field |-> self.field]

\* Field::generator
generator(self) == FieldElement_new(28, self)

(***************************************************************************)
(* polynomial.rs                                                           *)
(***************************************************************************)

Polynomial_new(coeffs) == [coeffs |-> coeffs]

\* the loop of Polynomial::evaluate over coeffs[i..], carrying (xi, value)
RECURSIVE evaluate_loop(_, _, _, _, _)
evaluate_loop(coeffs, i, xx, xi, value) ==
    IF i > Len(coeffs)
    THEN value
    ELSE evaluate_loop(coeffs, i + 1, xx, mul(xi, xx), add(value, mul(coeffs[i], xi)))

evaluate_from_x(self, xx) == evaluate_loop(self.coeffs, 1, xx, xx, zero(xx.field))

evaluate(self, xx) == evaluate_loop(self.coeffs, 1, xx, one(xx.field), zero(xx.field))

evaluate_domain(self, domain) == [k \in 1..Len(domain) |-> evaluate(self, domain[k])]

\* iter().step_by(2): positions 0, 2, 4, ... (1, 3, 5, ... counting from one)
step_by_2(s) == [k \in 1..((Len(s) + 1) \div 2) |-> s[2 * k - 1]]

\* iter().skip(1)
skip_1(s) == [k \in 1..(IF Len(s) = 0 THEN 0 ELSE Len(s) - 1) |-> s[k + 1]]

\* a.iter().zip(b.iter()): stops with the shorter of the two
zip(a, b) == [k \in 1..(IF Len(a) < Len(b) THEN Len(a) ELSE Len(b)) |-> <<a[k], b[k]>>]

fold_polynomial_skip0(p, b) ==
    LET even == step_by_2(p.coeffs)
        odd == [k \in 1..Len(even) |-> mul(even[k], b)]
        z == zip(even, odd)
    IN Polynomial_new([k \in 1..Len(z) |-> add(z[k][1], z[k][2])])

fold_polynomial(p, b) ==
    LET coeffs == p.coeffs
        even == step_by_2(coeffs)
        odds == step_by_2(skip_1(coeffs))
        odd == [k \in 1..Len(odds) |-> mul(odds[k], b)]
        z == zip(even, odd)
    IN Polynomial_new([k \in 1..Len(z) |-> add(z[k][1], z[k][2])])

(***************************************************************************)
(* Bytes, SHA-256 and the Merkle tree of the merkle crate                  *)
(*                                                                         *)
(* A transcript object is a byte vector.  The 32 bytes of a Merkle root    *)
(* are kept symbolic, as the leaf values the root commits to (the hash is  *)
(* taken to be collision free); other objects are explicit bytes.          *)
(* SHA-256 of a serialized transcript is an unknown function: `oracle`     *)
(* records the digest of every preimage hashed so far, and a preimage      *)
(* hashed for the first time may have any digest of DigestSet.             *)
(***************************************************************************)
Bytes(bs) == [kind |-> "bytes", of |-> bs]

RootDigest(nums) == [kind |-> "root", of |-> nums]

\* i128::to_be_bytes: 16 bytes, most significant first, two's complement
RECURSIVE be_bytes(_, _)
be_bytes(n, width) ==
    IF width = 0 THEN <<>> ELSE Append(be_bytes(n \div 256, width - 1), n % 256)

to_be_bytes(num) == be_bytes(num, 16)

\* MerkleTree::from_vec(DIGEST, evaluation)
from_vec(values) == [leaves |-> values]

\* the leaves are hashed through Hashable::update_context, which feeds num alone
root_hash(tree) == RootDigest([k \in 1..Len(tree.leaves) |-> tree.leaves[k].num])

\* Option<T>: None is <<>>, Some(v) is <<v>>
None == <<>>

Some(v) == <<v>>

\* MerkleTree::gen_nth_proof(n): the path of the n-th leaf, None when the tree
\* has no n-th leaf
gen_nth_proof(tree, n) ==
    IF n >= Len(tree.leaves)
    THEN None
    ELSE Some([root_hash |-> root_hash(tree), index |-> n,
               value |-> tree.leaves[n + 1], lemma_ok |-> TRUE])

\* Proof::validate(root): the proof is for this root and its hash chain is sound
validate(proof, root) == proof.root_hash = root /\ proof.lemma_ok

(***************************************************************************)
(* prover.rs                                                               *)
(***************************************************************************)
ProofStream_new == [objects |-> <<>>, read_index |-> 0]

push_front(self, object) == [self EXCEPT !.objects = <<object>> \o @]

push(self, object) == [self EXCEPT !.objects = Append(@, object)]

\* serde_json::to_string of a Vec<Vec<u8>> and of one Vec<u8>: "[[..],[..]]"
\* and "[..]" are different strings unless both are "[]"
EmptyJson == [json |-> "[]", of |-> <<>>]

serialize(self) ==
    IF self.objects = <<>> THEN EmptyJson ELSE [json |-> "[[..]]", of |-> self.objects]

to_string(object) ==
    IF object = Bytes(<<>>) THEN EmptyJson ELSE [json |-> "[..]", of |-> <<object>>]

\* 2^64 mod m and the big-endian value of bytes mod m, by Horner's rule
RECURSIVE be_value_mod(_, _, _)
be_value_mod(bytes, n, m) ==
    IF n = 0 THEN 0 ELSE (be_value_mod(bytes, n - 1, m) * 256 + bytes[n]) % m

RECURSIVE pow_mod(_, _, _)
pow_mod(b, e, m) == IF e = 0 THEN 1 % m ELSE (b * pow_mod(b, e - 1, m)) % m

\* FieldElement::from_bytes: the first 8 bytes as a big-endian i64, reduced
from_bytes(bytes, field) ==
    LET unsigned == be_value_mod(bytes, 8, field.prime)
        wrap == IF bytes[1] >= 128 THEN pow_mod(256, 8, field.prime) ELSE 0
    IN [num |-> modulo(unsigned - wrap, field.prime), field |-> field]

\* bytes[0..8] needs eight bytes
from_bytes_panics(bytes) == Len(bytes) < 8

\* Field::sample: acc = (acc << 8) ^ b over the bytes keeps the low 128 bits of the
\* big-endian value, read as an i128, and reduces them
sample(self, byte_array) ==
    LET n == Len(byte_array)
        low == IF n > 16 THEN SubSeq(byte_array, n - 15, n) ELSE byte_array
        unsigned == be_value_mod(low, Len(low), self.prime)
        wrap == IF Len(low) = 16 /\ low[1] >= 128 THEN pow_mod(256, 16, self.prime) ELSE 0
    IN FieldElement_new(modulo(unsigned - wrap, self.prime), self)

\* a SHA-256 digest whose first 8 bytes are the big-endian integer k
DigestOf(k) == [i \in 1..32 |-> IF i <= 8 THEN be_bytes(k, 8)[i] ELSE 0]

\* the preimage prover_fiat_shamir hashes
prover_preimage(self) == serialize(self)

\* verifier_fiat_shamir indexes objects[read_index]
verifier_panics(self) ==
    self.read_index < 0 \/ self.read_index >= Len(self.objects)

verifier_preimage(self) == to_string(self.objects[self.read_index + 1])

verifier_random_index_reads(self) == [self EXCEPT !.read_index = @ + 1]

\* what verifier_random_index(&mut self, domain_size) leaves in self
verifier_random_index(self) == self

(***************************************************************************)
(* fri.rs                                                                  *)
(***************************************************************************)
FriLayer_new(p, domain) ==
    [polynomial |-> p,
     merkle_tree |-> from_vec(evaluate_domain(p, domain)),
     domain |-> domain]

\* for i in 1..number_layers, on st = (current_poly, fri_layers, transcript);
\* digests[k] is SHA-256 of the k-th preimage hashed, asked lists the preimages
RECURSIVE commit_loop(_, _, _, _, _, _)
commit_loop(i, layers, field, domain, digests, st) ==
    IF i >= layers
    THEN st
    ELSE LET alpha == from_bytes(digests[Len(st.asked) + 1], field)
             st1 == [st EXCEPT !.asked = Append(@, prover_preimage(st.transcript)),
                               !.alphas = Append(@, alpha)]
         IN IF i >= Len(domain)
            THEN [st1 EXCEPT !.panic = "index out of bounds"]
            ELSE LET new_domain == domain[i + 1]
                     current_poly == fold_polynomial(st.current_poly, alpha)
                     current_layer == FriLayer_new(current_poly, <<new_domain>>)
                     new_data == root_hash(current_layer.merkle_tree)
                 IN commit_loop(i + 1, layers, field, domain, digests,
                                [st1 EXCEPT !.current_poly = current_poly,
                                            !.fri_layers = Append(@, current_layer),
                                            !.transcript = push(@, new_data)])

fri_commit(layers, p_0, tr, domain, digests) ==
    LET st0 == [current_poly |-> p_0, fri_layers |-> <<>>, transcript |-> tr,
                asked |-> <<>>, alphas |-> <<>>, panic |-> "",
                last_value |-> zero(Field_new(2))]
    IN IF Len(p_0.coeffs) = 0
       THEN [st0 EXCEPT !.panic = "index out of bounds"]
       ELSE LET field == p_0.coeffs[1].field
                first_layer == FriLayer_new(p_0, domain)
                st1 == [st0 EXCEPT !.fri_layers = <<first_layer>>,
                                   !.transcript = push(tr, root_hash(first_layer.merkle_tree))]
                st2 == commit_loop(1, layers, field, domain, digests, st1)
            IN IF st2.panic # ""
               THEN st2
               ELSE LET alpha == from_bytes(digests[Len(st2.asked) + 1], field)
                        last_poly == fold_polynomial(st2.current_poly, alpha)
                        lv == IF Len(last_poly.coeffs) = 0
                              THEN FieldElement_new(0, field)
                              ELSE last_poly.coeffs[1]
                    IN [st2 EXCEPT !.asked = Append(@, prover_preimage(st2.transcript)),
                                   !.alphas = Append(@, alpha),
                                   !.transcript = push(@, Bytes(to_be_bytes(lv.num))),
                                   !.last_value = lv]

\* the body of the loop over the layers, for one query index
query_layers(g, domain_size, layers, query_index) ==
    LET g_i(i) == pow(g, i)
        at(i) == layers[i]
    IN [layers_auth_paths_sym |->
           [i \in 1..Len(layers) |->
               gen_nth_proof(at(i).merkle_tree,
                             (query_index + domain_size \div 2) % domain_size)],
        layers_evaluations_sym |->
           [i \in 1..Len(layers) |-> evaluate(at(i).polynomial, neg(g_i(i)))],
        layers_auth_paths |->
           [i \in 1..Len(layers) |-> gen_nth_proof(at(i).merkle_tree, query_index)],
        layers_evaluations |->
           [i \in 1..Len(layers) |-> evaluate(at(i).polynomial, g_i(i))]]

\* verifier_random_index takes a remainder by domain_size, once per query
fri_query_phase_panics(domain_size, layers, number_of_queries) ==
    Len(layers) > 0 /\ number_of_queries > 0 /\ domain_size = 0

\* the transcript fri_query_phase leaves: when there are layers,
\* verifier_random_index is called on it once per query
RECURSIVE query_transcript(_, _, _)
query_transcript(tr, layers, number_of_queries) ==
    IF Len(layers) = 0 \/ number_of_queries = 0
    THEN tr
    ELSE query_transcript(verifier_random_index(tr), layers, number_of_queries - 1)

fri_query_phase_loses_one(g, domain_size, layers, query_indices) ==
    IF Len(layers) > 0
    THEN [q \in 1..(Len(query_indices) - 1) |->
             query_layers(g, domain_size, layers, query_indices[q])]
    ELSE <<>>

fri_query_phase(g, domain_size, layers, query_indices) ==
    IF Len(layers) > 0
    THEN [q \in 1..Len(query_indices) |->
             query_layers(g, domain_size, layers, query_indices[q])]
    ELSE <<>>

fold_polynomial_evaluation_panics(eval, eval_sym, alpha) == add_panics(eval, eval_sym)

fold_polynomial_evaluation(eval, eval_sym, alpha) ==
    LET two == FieldElement_new(2, eval.field)
    IN add(mul(add(eval, eval_sym), inverse(two)),
           mul(mul(alpha, sub(eval, eval_sym)), inverse(two)))

Pass == [r |-> "pass", asked |-> FALSE]

Stop(r, asked) == [r |-> r, asked |-> asked]

\* the body of the loop over the layers in verify_fri; i counts from one
verify_layer(d, i, layers, tr, digest) ==
    IF \/ i > Len(d.layers_evaluations)
       \/ i > Len(d.layers_evaluations_sym)
       \/ i > Len(d.layers_auth_paths)
       \/ i > Len(d.layers_auth_paths_sym)
    THEN Stop("panic", FALSE)
    ELSE LET eval == d.layers_evaluations[i]
             eval_sym == d.layers_evaluations_sym[i]
             auth_path == d.layers_auth_paths[i]
             auth_path_sym == d.layers_auth_paths_sym[i]
             root == root_hash(layers[i].merkle_tree)
             eval_proof_valid ==
                 IF auth_path = None THEN FALSE ELSE validate(auth_path[1], root)
             eval_sym_proof_valid ==
                 IF auth_path_sym = None THEN FALSE ELSE validate(auth_path_sym[1], root)
         IN IF ~eval_proof_valid \/ ~eval_sym_proof_valid
            THEN Stop("false", FALSE)
            ELSE IF i < Len(layers)
                 THEN IF verifier_panics(tr)
                      THEN Stop("panic", FALSE)
                      ELSE LET alpha == from_bytes(digest, eval.field)
                           IN IF fold_polynomial_evaluation_panics(eval, eval_sym, alpha)
                              THEN Stop("panic", TRUE)
                              ELSE IF i + 1 > Len(d.layers_evaluations)
                                   THEN Stop("panic", TRUE)
                                   ELSE IF ~eq(fold_polynomial_evaluation(eval, eval_sym, alpha),
                                               d.layers_evaluations[i + 1])
                                        THEN Stop("false", TRUE)
                                        ELSE Stop("pass", TRUE)
                 ELSE Pass

\* the two nested loops of verify_fri, from decommitment q and layer i on
RECURSIVE verify_loop(_, _, _, _, _, _, _)
verify_loop(q, i, layers, decs, tr, digest, asked) ==
    IF q > Len(decs)
    THEN [result |-> "true", asked |-> asked]
    ELSE IF i > Len(layers)
         THEN verify_loop(q + 1, 1, layers, decs, tr, digest, asked)
         ELSE LET s == verify_layer(decs[q], i, layers, tr, digest)
              IN IF s.r = "pass"
                 THEN verify_loop(q, i + 1, layers, decs, tr, digest, asked \/ s.asked)
                 ELSE [result |-> s.r, asked |-> asked \/ s.asked]

\* digest is SHA-256 of the object at the read cursor
verify_fri(layers, decs, tr, digest) == verify_loop(1, 1, layers, decs, tr, digest, FALSE)

(***************************************************************************)
(* Inputs of the model                                                     *)
(***************************************************************************)
Primes == {2, 3, 5, 7}

FieldElements(p) == {FieldElement_new(n, Field_new(p)) : n \in 0..(p - 1)}

Elems(nums, field) == [k \in 1..Len(nums) |-> FieldElement_new(nums[k], field)]

RECURSIVE SeqsUpTo(_, _)
SeqsUpTo(S, n) ==
    IF n = 0
    THEN {<<>>}
    ELSE LET shorter == SeqsUpTo(S, n - 1)
         IN shorter \cup {Append(s, e) : s \in {t \in shorter : Len(t) = n - 1}, e \in S}

Range(s) == {s[k] : k \in 1..Len(s)}

\* the protocol runs over F_5
FriField == Field_new(5)

CommitPolys ==
    {Polynomial_new(Elems(s, FriField)) :
        s \in {t \in {<<>>, <<3>>, <<3, 1>>, <<1, 2, 1, 3>>,
                      <<1, 2, 3, 4, 0, 1, 2, 3>>} : Len(t) <= IntPow(2, MaxLayers)}}

\* as in main.rs: the generator, its square, its fourth power, ...
CommitDomain(n) ==
    [k \in 1..n |-> FieldElement_new(pow_mod(2, IntPow(2, k - 1), FriField.prime), FriField)]

CommitDomains == {CommitDomain(n) : n \in 0..MaxDomain}

QueryGens == {FieldElement_new(2, FriField), FieldElement_new(4, FriField)}

\* the digests SHA-256 may give: those that reduce to 0, 1 and 4 in F_5
DigestSet == {DigestOf(k) : k \in {0, 1, 4}}

(***************************************************************************)
(* Initial values                                                          *)
(***************************************************************************)
NoQuery ==
    [g |-> zero(FriField), domain_size |-> 0, number_of_queries |-> 0,
     query_indices |-> <<>>, layers |-> 0]

NoCommit == [p_0 |-> Polynomial_new(<<>>), domain |-> <<>>, transcript |-> ProofStream_new]

InitFri ==
    /\ transcript = ProofStream_new
    /\ fri_layers = <<>>
    /\ last_value = zero(FriField)
    /\ decommitments = <<>>
    /\ verified = "none"
    /\ oracle = <<>>
    /\ phase = "Uninitialized"
    /\ number_layers = 0
    /\ commit_in = NoCommit
    /\ alphas = <<>>
    /\ query_in = NoQuery
    /\ tampers = <<>>

NoChallenge == [called |-> FALSE, at |-> 0, ok |-> FALSE, value |-> zero(FriField)]

FsIdle ==
    /\ pchallenge = <<>>
    /\ vchallenge = NoChallenge
    /\ pulls = <<>>

NoCall == [called |-> FALSE]

OthersIdle ==
    /\ folded = NoCall
    /\ reduced = NoCall
    /\ nth = NoCall

PureIdle ==
    /\ euclid = NoCall
    /\ evaluated = NoCall
    /\ OthersIdle

FoldIdle ==
    /\ prev = Polynomial_new(<<>>)
    /\ beta = zero(Field_new(2))
    /\ poly = Polynomial_new(<<>>)
    /\ nfold = 0

FieldIdle ==
    /\ x = zero(Field_new(2))
    /\ y = zero(Field_new(2))
    /\ acc = zero(Field_new(2))
    /\ ops = <<>>
    /\ cmp = "none"

(***************************************************************************)
(* SpecField: the constructors and operators of FieldElement applied to an *)
(* accumulator; x and y may belong to different fields                     *)
(***************************************************************************)
Operand(name) == IF name = "x" THEN x ELSE y

InitField ==
    /\ \E p, q \in Primes : x \in FieldElements(p) /\ y \in FieldElements(q)
    /\ acc = x
    /\ ops = <<>>
    /\ cmp = "none"
    /\ err = ""
    /\ FoldIdle
    /\ InitFri
    /\ FsIdle
    /\ PureIdle

CanApply == err = "" /\ Len(ops) < MaxOps

FieldMismatch == "cannot add two numbers in different Fields"

\* integers handed to FieldElement::new, exponents handed to pow, byte
\* sequences handed to from_bytes and sample
NewNums == {-8, -1, 0, 6, 100}

Exponents == 0..3

HighDigest == [i \in 1..32 |-> IF i = 1 THEN 255 ELSE IF i = 32 THEN 1 ELSE 0]

ByteInputs == {<<>>, <<1, 2>>, DigestOf(4), HighDigest}

\* acc + operand
Add ==
    /\ CanApply
    /\ \E name \in {"x", "y"} :
          /\ ops' = Append(ops, <<"add", name>>)
          /\ IF add_panics(acc, Operand(name))
             THEN err' = FieldMismatch /\ acc' = acc
             ELSE err' = err /\ acc' = add(acc, Operand(name))
    /\ UNCHANGED <<x, y, cmp, foldVars, friVars, fsVars, pureVars>>

\* acc - operand
Subtract ==
    /\ CanApply
    /\ \E name \in {"x", "y"} :
          /\ acc' = sub(acc, Operand(name))
          /\ ops' = Append(ops, <<"sub", name>>)
    /\ UNCHANGED <<x, y, err, cmp, foldVars, friVars, fsVars, pureVars>>

\* acc * operand
Multiply ==
    /\ CanApply
    /\ \E name \in {"x", "y"} :
          /\ acc' = mul(acc, Operand(name))
          /\ ops' = Append(ops, <<"mul", name>>)
    /\ UNCHANGED <<x, y, err, cmp, foldVars, friVars, fsVars, pureVars>>

\* acc / operand
Divide ==
    /\ CanApply
    /\ \E name \in {"x", "y"} :
          /\ ops' = Append(ops, <<"div", name>>)
          /\ IF div_panics(acc, Operand(name))
             THEN err' = "divide by 0" /\ acc' = acc
             ELSE err' = err /\ acc' = div(acc, Operand(name))
    /\ UNCHANGED <<x, y, cmp, foldVars, friVars, fsVars, pureVars>>

\* -acc
Negate ==
    /\ CanApply
    /\ acc' = neg(acc)
    /\ ops' = Append(ops, <<"neg", "">>)
    /\ UNCHANGED <<x, y, err, cmp, foldVars, friVars, fsVars, pureVars>>

\* acc.pow(exponent)
Pow ==
    /\ CanApply
    /\ \E exponent \in Exponents : acc' = pow(acc, exponent)
    /\ ops' = Append(ops, <<"pow", "">>)
    /\ UNCHANGED <<x, y, err, cmp, foldVars, friVars, fsVars, pureVars>>

\* acc.inverse()
Inverse ==
    /\ CanApply
    /\ acc' = inverse(acc)
    /\ ops' = Append(ops, <<"inverse", "">>)
    /\ UNCHANGED <<x, y, err, cmp, foldVars, friVars, fsVars, pureVars>>

\* FieldElement::new(num, field)
New ==
    /\ CanApply
    /\ \E num \in NewNums : acc' = FieldElement_new(num, acc.field)
    /\ ops' = Append(ops, <<"new", "">>)
    /\ UNCHANGED <<x, y, err, cmp, foldVars, friVars, fsVars, pureVars>>

\* FieldElement::from_bytes(bytes, field)
FromBytes ==
    /\ CanApply
    /\ ops' = Append(ops, <<"from_bytes", "">>)
    /\ \E bytes \in ByteInputs :
          IF from_bytes_panics(bytes)
          THEN err' = "range end index 8 out of range for slice" /\ acc' = acc
          ELSE err' = err /\ acc' = from_bytes(bytes, acc.field)
    /\ UNCHANGED <<x, y, cmp, foldVars, friVars, fsVars, pureVars>>

\* field.sample(byte_array)
Sample ==
    /\ CanApply
    /\ \E byte_array \in ByteInputs : acc' = sample(acc.field, byte_array)
    /\ ops' = Append(ops, <<"sample", "">>)
    /\ UNCHANGED <<x, y, err, cmp, foldVars, friVars, fsVars, pureVars>>

\* acc == operand
Equal ==
    /\ CanApply
    /\ \E name \in {"x", "y"} :
          /\ cmp' = IF eq(acc, Operand(name)) THEN "true" ELSE "false"
          /\ ops' = Append(ops, <<"eq", name>>)
    /\ UNCHANGED <<x, y, acc, err, foldVars, friVars, fsVars, pureVars>>

NextField ==
    \/ Add \/ Subtract \/ Multiply \/ Divide \/ Negate \/ Pow \/ Inverse
    \/ New \/ FromBytes \/ Sample \/ Equal

SpecField == InitField /\ [][NextField]_vars

(***************************************************************************)
(* SpecFold: fold_polynomial applied repeatedly                            *)
(***************************************************************************)

\* the polynomial of main.rs over F_97, and every short polynomial over F_3
MainPoly == Polynomial_new(Elems(<<19, 56, 34, 48, 43, 37, 10, 0>>, Field_new(97)))

FoldInputs ==
    {MainPoly} \cup {Polynomial_new(Elems(s, Field_new(3))) : s \in SeqsUpTo(0..2, MaxCoeffs)}

FieldOf(p) == IF Len(p.coeffs) = 0 THEN Field_new(3) ELSE p.coeffs[1].field

Betas(field) ==
    IF field.prime = 97
    THEN {FieldElement_new(n, field) : n \in {12, 32, 64}}
    ELSE FieldElements(field.prime)

InitFold ==
    /\ poly \in FoldInputs
    /\ prev = poly
    /\ beta = zero(FieldOf(poly))
    /\ nfold = 0
    /\ err = ""
    /\ FieldIdle
    /\ InitFri
    /\ FsIdle
    /\ PureIdle

Fold ==
    /\ nfold < MaxFolds
    /\ \E b \in Betas(FieldOf(poly)) :
          /\ beta' = b
          /\ poly' = fold_polynomial(poly, b)
    /\ prev' = poly
    /\ nfold' = nfold + 1
    /\ UNCHANGED <<fieldVars, err, friVars, fsVars, pureVars>>

NextFold == Fold

SpecFold == InitFold /\ [][NextFold]_vars

(***************************************************************************)
(* Spec: one run of the protocol.  The caller owns the transcript, the     *)
(* layers and the decommitments, calls the three phases in any order and   *)
(* may alter the decommitments (their fields are public) before verifying. *)
(***************************************************************************)
Init ==
    /\ InitFri
    /\ err = ""
    /\ FieldIdle
    /\ FoldIdle
    /\ FsIdle
    /\ PureIdle

RemainderByZero == "attempt to calculate the remainder with a divisor of zero"

\* no panic has ended the process, and the run has not been verified yet
Running == err = "" /\ verified = "none"

\* SHA-256 is a function: a preimage hashed before keeps its digest
Consistent(asked, digests) ==
    /\ \A k \in 1..Len(asked) : asked[k] \in DOMAIN oracle => oracle[asked[k]] = digests[k]
    /\ \A j, k \in 1..Len(asked) : asked[j] = asked[k] => digests[j] = digests[k]

Hashed(asked, digests) ==
    [p \in (DOMAIN oracle) \cup Range(asked) |->
        IF p \in DOMAIN oracle
        THEN oracle[p]
        ELSE digests[CHOOSE k \in 1..Len(asked) : asked[k] = p]]

\* fri_commit(number_layers, p_0, &mut transcript, &domain)
Commit ==
    /\ Running
    /\ phase = "Uninitialized"
    /\ \E layers \in 0..MaxLayers, p_0 \in CommitPolys, domain \in CommitDomains :
          \E digests \in [1..(IF layers = 0 THEN 1 ELSE layers) -> DigestSet] :
             LET r == fri_commit(layers, p_0, transcript, domain, digests)
             IN /\ Consistent(r.asked, digests)
                /\ oracle' = Hashed(r.asked, digests)
                /\ transcript' = r.transcript
                /\ number_layers' = layers
                /\ commit_in' = [p_0 |-> p_0, domain |-> domain, transcript |-> transcript]
                /\ alphas' = r.alphas
                /\ IF r.panic # ""
                   THEN /\ err' = r.panic
                        /\ UNCHANGED <<fri_layers, last_value, phase>>
                   ELSE /\ err' = err
                        /\ fri_layers' = r.fri_layers
                        /\ last_value' = r.last_value
                        /\ phase' = "Committed"
    /\ verified' = "none"
    /\ UNCHANGED <<decommitments, query_in, tampers, fieldVars, foldVars, fsVars, pureVars>>

\* fri_query_phase(g, domain_size, &fri_layers, &mut transcript, number_of_queries);
\* the query indices are those rand::thread_rng() happens to give.  Decommitments
\* are altered on their way to the verifier, so no query follows an alteration.
Query ==
    /\ Running
    /\ tampers = <<>>
    /\ \E g \in QueryGens, domain_size \in 0..MaxDomain, number_of_queries \in 0..MaxQueries :
          IF fri_query_phase_panics(domain_size, fri_layers, number_of_queries)
          THEN /\ err' = RemainderByZero
               /\ query_in' = [g |-> g, domain_size |-> domain_size,
                               number_of_queries |-> number_of_queries,
                               query_indices |-> <<>>, layers |-> Len(fri_layers)]
               /\ UNCHANGED <<decommitments, phase, transcript>>
          ELSE \E query_indices \in
                     IF Len(fri_layers) = 0
                     THEN {<<>>}
                     ELSE [1..number_of_queries -> 0..(domain_size - 1)] :
                  /\ decommitments' = fri_query_phase(g, domain_size, fri_layers, query_indices)
                  /\ transcript' = query_transcript(transcript, fri_layers, number_of_queries)
                  /\ query_in' = [g |-> g, domain_size |-> domain_size,
                                  number_of_queries |-> number_of_queries,
                                  query_indices |-> query_indices,
                                  layers |-> Len(fri_layers)]
                  /\ phase' = IF phase = "Uninitialized" THEN phase ELSE "Queried"
                  /\ err' = err
    /\ verified' = "none"
    /\ tampers' = <<>>
    /\ UNCHANGED <<fri_layers, last_value, oracle, number_layers, commit_in, alphas,
                   fieldVars, foldVars, fsVars, pureVars>>

CanTamper == Running /\ Len(tampers) < MaxTamper

Tampered(decs, what, q, i, sym) ==
    /\ decommitments' = decs
    /\ tampers' = Append(tampers, [what |-> what, q |-> q, i |-> i, sym |-> sym])
    /\ verified' = "none"
    /\ UNCHANGED <<transcript, fri_layers, last_value, oracle, phase, number_layers, commit_in,
                   alphas, query_in, err, fieldVars, foldVars, fsVars, pureVars>>

\* the caller replaces one stored evaluation by another element of the field
TamperEvaluation ==
    /\ CanTamper
    /\ \E q \in 1..Len(decommitments), sym \in BOOLEAN, v \in FieldElements(FriField.prime) :
          LET d == decommitments[q]
              evals == IF sym THEN d.layers_evaluations_sym ELSE d.layers_evaluations
          IN \E i \in 1..Len(evals) :
                /\ v # evals[i]
                /\ Tampered(IF sym
                            THEN [decommitments EXCEPT ![q].layers_evaluations_sym[i] = v]
                            ELSE [decommitments EXCEPT ![q].layers_evaluations[i] = v],
                            "evaluation", q, i, sym)

\* the proofs a caller can put in place of a proof: none, a proof of any leaf of
\* any layer, or the same proof with a hash of its path altered
OtherProofs(old) ==
    {None}
    \cup {gen_nth_proof(fri_layers[j].merkle_tree, n) :
             j \in 1..Len(fri_layers), n \in 0..(MaxDomain - 1)}
    \cup (IF old = None THEN {} ELSE {Some([old[1] EXCEPT !.lemma_ok = FALSE])})

\* the caller replaces one Merkle proof by a different or a missing proof
TamperProof ==
    /\ CanTamper
    /\ \E q \in 1..Len(decommitments), sym \in BOOLEAN :
          LET d == decommitments[q]
              paths == IF sym THEN d.layers_auth_paths_sym ELSE d.layers_auth_paths
          IN \E i \in 1..Len(paths) :
                \E p \in OtherProofs(paths[i]) \ {paths[i]} :
                   Tampered(IF sym
                            THEN [decommitments EXCEPT ![q].layers_auth_paths_sym[i] = p]
                            ELSE [decommitments EXCEPT ![q].layers_auth_paths[i] = p],
                            "proof", q, i, sym)

DropLast(s) == SubSeq(s, 1, Len(s) - 1)

Shorter(s, cut) == IF cut /\ Len(s) > 0 THEN DropLast(s) ELSE s

\* the caller hands over a decommitment in which one of the four vectors, or each
\* of them, lacks its last entry
Truncate ==
    /\ CanTamper
    /\ \E q \in 1..Len(decommitments),
          which \in {"layers_auth_paths_sym", "layers_evaluations_sym",
                     "layers_auth_paths", "layers_evaluations", "all"} :
          LET d == decommitments[q]
              cut(name) == which \in {name, "all"}
              short ==
                 [layers_auth_paths_sym |->
                     Shorter(d.layers_auth_paths_sym, cut("layers_auth_paths_sym")),
                  layers_evaluations_sym |->
                     Shorter(d.layers_evaluations_sym, cut("layers_evaluations_sym")),
                  layers_auth_paths |->
                     Shorter(d.layers_auth_paths, cut("layers_auth_paths")),
                  layers_evaluations |->
                     Shorter(d.layers_evaluations, cut("layers_evaluations"))]
          IN /\ short # d
             /\ Tampered([decommitments EXCEPT ![q] = short], "truncate", q, 0, FALSE)

\* verify_fri(&fri_layers, &decommitments, &mut transcript)
Verify ==
    /\ Running
    /\ \E digest \in DigestSet :
          LET r == verify_fri(fri_layers, decommitments, transcript, digest)
          IN /\ r.asked => Consistent(<<verifier_preimage(transcript)>>, <<digest>>)
             /\ oracle' = IF r.asked
                          THEN Hashed(<<verifier_preimage(transcript)>>, <<digest>>)
                          ELSE oracle
             /\ verified' = r.result
             /\ err' = IF r.result = "panic" THEN "index out of bounds" ELSE err
    /\ UNCHANGED <<transcript, fri_layers, last_value, decommitments, phase, number_layers, commit_in,
                   alphas, query_in, tampers, fieldVars, foldVars, fsVars, pureVars>>

Next == Commit \/ Query \/ TamperEvaluation \/ TamperProof \/ Truncate \/ Verify

Spec == Init /\ [][Next]_vars

\* the prover's side alone: fri_commit and fri_query_phase
NextProver == Commit \/ Query

SpecProver == Init /\ [][NextProver]_vars

(***************************************************************************)
(* SpecCommit: fri_commit called on a transcript that may already hold     *)
(* objects, some of them read                                              *)
(***************************************************************************)
CommitTranscripts ==
    {ProofStream_new,
     [objects |-> <<Bytes(<<7>>)>>, read_index |-> 0],
     [objects |-> <<Bytes(<<7>>), RootDigest(<<1, 2>>)>>, read_index |-> 1]}

InitCommit ==
    /\ transcript \in CommitTranscripts
    /\ fri_layers = <<>>
    /\ last_value = zero(FriField)
    /\ decommitments = <<>>
    /\ verified = "none"
    /\ oracle = <<>>
    /\ phase = "Uninitialized"
    /\ number_layers = 0
    /\ commit_in = NoCommit
    /\ alphas = <<>>
    /\ query_in = NoQuery
    /\ tampers = <<>>
    /\ err = ""
    /\ FieldIdle
    /\ FoldIdle
    /\ FsIdle
    /\ PureIdle

NextCommit == Commit

SpecCommit == InitCommit /\ [][NextCommit]_vars

(***************************************************************************)
(* SpecPhases: fri_commit, fri_query_phase and verify_fri called in any    *)
(* order, on a new transcript or on one that holds objects, one read       *)
(***************************************************************************)
InitPhases ==
    /\ transcript \in
          {ProofStream_new,
           [objects |-> <<Bytes(<<7>>), RootDigest(<<1, 2>>)>>, read_index |-> 1]}
    /\ fri_layers = <<>>
    /\ last_value = zero(FriField)
    /\ decommitments = <<>>
    /\ verified = "none"
    /\ oracle = <<>>
    /\ phase = "Uninitialized"
    /\ number_layers = 0
    /\ commit_in = NoCommit
    /\ alphas = <<>>
    /\ query_in = NoQuery
    /\ tampers = <<>>
    /\ err = ""
    /\ FieldIdle
    /\ FoldIdle
    /\ FsIdle
    /\ PureIdle

SpecPhases == InitPhases /\ [][Commit \/ Query \/ Verify]_vars

(***************************************************************************)
(* SpecTranscript: a ProofStream under push, pull and the two Fiat-Shamir  *)
(* derivations, called in any order                                        *)
(***************************************************************************)
PushObjects == {Bytes(<<>>), Bytes(<<7>>), RootDigest(<<1, 2>>)}

InitTranscript ==
    /\ InitFri
    /\ FsIdle
    /\ PureIdle
    /\ err = ""
    /\ FieldIdle
    /\ FoldIdle

fsFrame ==
    UNCHANGED <<fri_layers, last_value, decommitments, verified, phase, number_layers, commit_in,
                alphas, query_in, tampers, fieldVars, foldVars, pureVars>>

\* ProofStream::push
Push ==
    /\ err = ""
    /\ Len(transcript.objects) < MaxPush
    /\ \E object \in PushObjects : transcript' = push(transcript, object)
    /\ UNCHANGED <<oracle, err, fsVars>>
    /\ fsFrame

\* assert!(self.read_index < self.objects.len() as i64, ...)
pull_panics(self) == ~(self.read_index < Len(self.objects))

EmptyQueue == "Cannot put object, queue empty."

pull_rereads(self) ==
    [self |-> [self EXCEPT !.read_index = @ + 1], obj |-> self.objects[1]]

\* the object at the cursor is returned and the cursor moves on by one
pull(self) ==
    [self |-> [self EXCEPT !.read_index = @ + 1],
     obj |-> self.objects[self.read_index + 1]]

\* ProofStream::pull
Pull ==
    /\ err = ""
    /\ LET call == [at |-> transcript.read_index, len |-> Len(transcript.objects)]
       IN IF pull_panics(transcript)
          THEN /\ err' = EmptyQueue
               /\ transcript' = transcript
               /\ pulls' = Append(pulls, [call |-> call, obj |-> None])
          ELSE /\ err' = err
               /\ transcript' = pull(transcript).self
               /\ pulls' = Append(pulls, [call |-> call, obj |-> Some(pull(transcript).obj)])
    /\ UNCHANGED <<oracle, pchallenge, vchallenge>>
    /\ fsFrame

\* ProofStream::prover_fiat_shamir(&field)
ProverFiatShamir ==
    /\ err = ""
    /\ \E digest \in DigestSet :
          LET asked == <<prover_preimage(transcript)>>
          IN /\ Consistent(asked, <<digest>>)
             /\ oracle' = Hashed(asked, <<digest>>)
             /\ pchallenge' =
                   [k \in (DOMAIN pchallenge) \cup {Len(transcript.objects)} |->
                       IF k = Len(transcript.objects)
                       THEN from_bytes(digest, FriField)
                       ELSE pchallenge[k]]
    /\ UNCHANGED <<transcript, err, vchallenge, pulls>>
    /\ fsFrame

\* ProofStream::verifier_fiat_shamir(&field)
VerifierFiatShamir ==
    /\ err = ""
    /\ IF verifier_panics(transcript)
       THEN /\ err' = "index out of bounds"
            /\ vchallenge' = [called |-> TRUE, at |-> transcript.read_index, ok |-> FALSE,
                              value |-> zero(FriField)]
            /\ oracle' = oracle
       ELSE \E digest \in DigestSet :
               LET asked == <<verifier_preimage(transcript)>>
               IN /\ Consistent(asked, <<digest>>)
                  /\ oracle' = Hashed(asked, <<digest>>)
                  /\ vchallenge' = [called |-> TRUE, at |-> transcript.read_index,
                                    ok |-> TRUE, value |-> from_bytes(digest, FriField)]
                  /\ err' = err
    /\ UNCHANGED <<transcript, pchallenge, pulls>>
    /\ fsFrame

NextTranscript == Push \/ Pull \/ ProverFiatShamir \/ VerifierFiatShamir

SpecTranscript == InitTranscript /\ [][NextTranscript]_vars

(***************************************************************************)
(* SpecEuclid: extended_euclidean_algorithm applied to positive integers   *)
(***************************************************************************)

\* every pair up to the bound, and the pairs of the test of finite_field.rs
EuclidInputs ==
    ((1..MaxEuclid) \X (1..MaxEuclid))
       \cup {<<101, 13>>, <<123, 19>>, <<25, 36>>, <<69, 54>>, <<55, 79>>, <<33, 44>>,
             <<50, 70>>}

euclidFrame == UNCHANGED <<fieldVars, err, foldVars, friVars, fsVars, evaluated, folded, reduced, nth>>

InitEuclid ==
    /\ \E in \in EuclidInputs : euclid = [called |-> FALSE, a |-> in[1], b |-> in[2]]
    /\ evaluated = NoCall
    /\ OthersIdle
    /\ err = ""
    /\ FieldIdle
    /\ FoldIdle
    /\ InitFri
    /\ FsIdle

\* extended_euclidean_algorithm(a, b)
Euclid ==
    /\ ~euclid.called
    /\ euclid' = [called |-> TRUE, a |-> euclid.a, b |-> euclid.b,
                  result |-> extended_euclidean_algorithm(euclid.a, euclid.b)]
    /\ euclidFrame

NextEuclid == Euclid

SpecEuclid == InitEuclid /\ [][NextEuclid]_vars

(***************************************************************************)
(* SpecEval: Polynomial::evaluate and evaluate_domain                      *)
(***************************************************************************)

\* [1,2,3] and the polynomial of main.rs over F_97, every short one over F_3
EvalPolys ==
    {MainPoly, Polynomial_new(Elems(<<1, 2, 3>>, Field_new(97)))}
       \cup {Polynomial_new(Elems(c, Field_new(3))) : c \in SeqsUpTo(0..2, MaxCoeffs)}

EvalField(p) == IF Len(p.coeffs) = 0 THEN Field_new(3) ELSE p.coeffs[1].field

EvalPoints(field) ==
    IF field.prime = 97
    THEN {FieldElement_new(n, field) : n \in {0, 5, 28, 96}}
    ELSE FieldElements(field.prime)

EvalDomains(field) ==
    {<<>>} \cup {<<a>> : a \in EvalPoints(field)}
           \cup {<<a, b>> : a, b \in EvalPoints(field)}
           \cup {<<a, b, a>> : a, b \in EvalPoints(field)}

evalFrame == UNCHANGED <<fieldVars, err, foldVars, friVars, fsVars, euclid, folded, reduced, nth>>

InitEval ==
    /\ \E p \in EvalPolys :
          \E domain \in EvalDomains(EvalField(p)) :
             evaluated = [called |-> FALSE, self |-> p, domain |-> domain]
    /\ euclid = NoCall
    /\ OthersIdle
    /\ err = ""
    /\ FieldIdle
    /\ FoldIdle
    /\ InitFri
    /\ FsIdle

\* self.evaluate(x), x the only point of the domain
Evaluate ==
    /\ ~evaluated.called
    /\ Len(evaluated.domain) = 1
    /\ evaluated' = [called |-> TRUE, fn |-> "evaluate", self |-> evaluated.self,
                     domain |-> evaluated.domain,
                     output |-> <<evaluate(evaluated.self, evaluated.domain[1])>>]
    /\ evalFrame

\* self.evaluate_domain(&domain)
EvaluateDomain ==
    /\ ~evaluated.called
    /\ evaluated' = [called |-> TRUE, fn |-> "evaluate_domain", self |-> evaluated.self,
                     domain |-> evaluated.domain,
                     output |-> evaluate_domain(evaluated.self, evaluated.domain)]
    /\ evalFrame

NextEval == Evaluate \/ EvaluateDomain

SpecEval == InitEval /\ [][NextEval]_vars

(***************************************************************************)
(* SpecFoldEval: the fold check of verify_fri on the evaluations           *)
(* fri_query_phase reports for a layer and for the fold of that layer      *)
(***************************************************************************)

\* every polynomial with two or four coefficients
FoldEvalPolys(p) ==
    {Polynomial_new(Elems(c, Field_new(p))) :
        c \in {c \in SeqsUpTo(0..(p - 1), MaxCoeffs) : Len(c) > 0 /\ Len(c) % 2 = 0}}

InitFoldEval ==
    /\ \E p \in {3, 5} :
          \E P \in FoldEvalPolys(p), alpha \in FieldElements(p),
             g \in FieldElements(p) \ {zero(Field_new(p))}, i \in 0..(MaxLayers - 1) :
             folded = [called |-> FALSE, P |-> P, alpha |-> alpha, g |-> g, i |-> i]
    /\ euclid = NoCall
    /\ evaluated = NoCall
    /\ reduced = NoCall
    /\ nth = NoCall
    /\ err = ""
    /\ FieldIdle
    /\ FoldIdle
    /\ InitFri
    /\ FsIdle

\* layer i holds P and layer i+1 its fold with alpha: fri_query_phase reports
\* the evaluations of layer i at g^(i+1) and -g^(i+1) and of layer i+1 at
\* g^(i+2); verify_fri folds the first two and compares with the third
FoldEvaluation ==
    /\ ~folded.called
    /\ LET g_i == pow(folded.g, folded.i + 1)
           eval == evaluate(folded.P, g_i)
           eval_sym == evaluate(folded.P, neg(g_i))
           next_eval == evaluate(fold_polynomial(folded.P, folded.alpha),
                                 pow(folded.g, folded.i + 2))
       IN folded' = [folded EXCEPT !.called = TRUE] @@
                    [eval |-> eval, eval_sym |-> eval_sym, next_eval |-> next_eval,
                     folded_value |-> fold_polynomial_evaluation(eval, eval_sym, folded.alpha)]
    /\ UNCHANGED <<fieldVars, err, foldVars, friVars, fsVars, euclid, evaluated, reduced, nth>>

SpecFoldEval == InitFoldEval /\ [][FoldEvaluation]_vars

(***************************************************************************)
(* SpecBytes: FieldElement::from_bytes and Field::sample applied to byte   *)
(* sequences                                                               *)
(***************************************************************************)

\* n bytes, all zero but the j-th, which is b
UnitBytes(n, j, b) == [i \in 1..n |-> IF i = j THEN b ELSE 0]

\* short sequences, and sequences of 8, 16 and 32 bytes (a SHA-256 digest)
\* with one byte set: the first, the eighth or the last; the moduli tried and
\* that of main.rs
InitBytes ==
    /\ \E d \in ByteInputs
                  \cup {UnitBytes(n, j, b) :
                          n \in {8, 16, 32}, j \in {1, 8, 16, 32}, b \in {1, 128, 255}},
          p \in Primes \cup {97} :
          reduced = [called |-> FALSE, bytes |-> d, field |-> Field_new(p)]
    /\ euclid = NoCall
    /\ evaluated = NoCall
    /\ folded = NoCall
    /\ nth = NoCall
    /\ err = ""
    /\ FieldIdle
    /\ FoldIdle
    /\ InitFri
    /\ FsIdle

\* FieldElement::from_bytes(bytes, field)
BytesFromBytes ==
    /\ ~reduced.called
    /\ reduced' = [called |-> TRUE, fn |-> "from_bytes", bytes |-> reduced.bytes,
                   field |-> reduced.field,
                   output |-> IF from_bytes_panics(reduced.bytes)
                              THEN None
                              ELSE Some(from_bytes(reduced.bytes, reduced.field))]
    /\ UNCHANGED <<fieldVars, err, foldVars, friVars, fsVars, euclid, evaluated, folded, nth>>

\* field.sample(byte_array)
BytesSample ==
    /\ ~reduced.called
    /\ reduced' = [called |-> TRUE, fn |-> "sample", bytes |-> reduced.bytes,
                   field |-> reduced.field,
                   output |-> Some(sample(reduced.field, reduced.bytes))]
    /\ UNCHANGED <<fieldVars, err, foldVars, friVars, fsVars, euclid, evaluated, folded, nth>>

SpecBytes == InitBytes /\ [][BytesFromBytes \/ BytesSample]_vars

(***************************************************************************)
(* SpecRoot: Field::primitive_nth_root(n), one step of its loop at a time. *)
(* The thread that runs it keeps running: every enabled step is taken.     *)
(***************************************************************************)

\* n = 2^k for k up to MaxRootLog
MaxRootLog == 5

rootFrame ==
    UNCHANGED <<fieldVars, err, foldVars, friVars, fsVars, euclid, evaluated, folded, reduced>>

\* the modulus of main.rs and smaller ones, with the n = 2^k for which the
\* field has an element of order n
InitRoot ==
    /\ \E p \in {3, 5, 17, 97}, k \in 0..MaxRootLog :
          /\ (p - 1) % IntPow(2, k) = 0
          /\ nth = [called |-> FALSE, pc |-> "entry", self |-> Field_new(p),
                    n |-> IntPow(2, k)]
    /\ euclid = NoCall
    /\ evaluated = NoCall
    /\ folded = NoCall
    /\ reduced = NoCall
    /\ err = ""
    /\ FieldIdle
    /\ FoldIdle
    /\ InitFri
    /\ FsIdle

\* let mut root = self.generator(); let mut order = 2;
RootEntry ==
    /\ nth.pc = "entry"
    /\ nth' = [called |-> TRUE, pc |-> "while", self |-> nth.self, n |-> nth.n,
               root |-> generator(nth.self), order |-> 2]
    /\ rootFrame

\* while order != n
RootWhile ==
    /\ nth.pc = "while"
    /\ nth' = [nth EXCEPT !.pc = IF nth.order # nth.n THEN "square" ELSE "return"]
    /\ rootFrame

\* root = root.pow(2);
RootSquare ==
    /\ nth.pc = "square"
    /\ nth' = [nth EXCEPT !.root = pow(nth.root, 2), !.pc = "halve"]
    /\ rootFrame

\* order /= 2;
RootHalve ==
    /\ nth.pc = "halve"
    /\ nth' = [nth EXCEPT !.order = TruncDiv(nth.order, 2), !.pc = "while"]
    /\ rootFrame

NextRoot == RootEntry \/ RootWhile \/ RootSquare \/ RootHalve

SpecRoot == InitRoot /\ [][NextRoot]_vars /\ WF_vars(NextRoot)

(***************************************************************************)
(* Claims                                                                  *)
(***************************************************************************)

Nums(p) == [k \in 1..Len(p.coeffs) |-> p.coeffs[k].num]

\* C8: folding a polynomial with 2k coefficients gives exactly k coefficients,
\* the i-th being (c_2i + beta * c_2i+1) mod p (indices from zero); the chain
\* [19,56,34,48,43,37,10,0] mod 97 with 12, 32, 64 gives [12,28,2,10], [35,31], [79].
C8_FoldHalves ==
    nfold > 0 =>
       /\ Len(prev.coeffs) % 2 = 0 =>
             /\ Len(poly.coeffs) * 2 = Len(prev.coeffs)
             /\ \A i \in 0..(Len(poly.coeffs) - 1) :
                   /\ poly.coeffs[i + 1].num =
                         (prev.coeffs[2 * i + 1].num + beta.num * prev.coeffs[2 * i + 2].num)
                            % FieldOf(prev).prime
                   /\ poly.coeffs[i + 1].field = FieldOf(prev)
       /\ (prev = MainPoly /\ beta.num = 12) => Nums(poly) = <<12, 28, 2, 10>>
       /\ (Nums(prev) = <<12, 28, 2, 10>> /\ beta.num = 32 /\ FieldOf(prev).prime = 97)
             => Nums(poly) = <<35, 31>>
       /\ (Nums(prev) = <<35, 31>> /\ beta.num = 64 /\ FieldOf(prev).prime = 97)
             => Nums(poly) = <<79>>

\* the third fold of the example chain has produced [79]
C8_Witness ==
    /\ nfold = 3
    /\ Nums(prev) = <<35, 31>>
    /\ beta.num = 64
    /\ Nums(poly) = <<79>>

\* C9: (x * y) / y == x and (x / y) * y == x for every non-zero y
C9_DivisionUndoesMultiplication ==
    (err = "" /\ y.num # 0 /\ x.field = y.field) =>
       /\ ops = <<<<"mul", "y">>, <<"div", "y">>>> => eq(acc, x)
       /\ ops = <<<<"div", "y">>, <<"mul", "y">>>> => eq(acc, x)

\* C10: x * inverse(x) == one() for every non-zero x
C10_MultiplicativeInverse ==
    (ops = <<<<"inverse", "">>, <<"mul", "x">>>> /\ x.num # 0) => eq(acc, one(x.field))

Canonical(e) == 0 <= e.num /\ e.num < e.field.prime

\* C11: every element a constructor or an operator produces from operands with
\* values in [0, p) has its value in [0, p)
C11_CanonicalRange ==
    [][(Canonical(x) /\ Canonical(y) /\ Canonical(acc) /\ ops' # ops /\ err' = "")
          => Canonical(acc')]_vars

\* C12: each of +, -, * and / applied to elements of different fields fails with
\* the field-mismatch error
C12_MismatchRejected ==
    [][\A op \in {"add", "sub", "mul", "div"}, name \in {"x", "y"} :
          (ops' = Append(ops, <<op, name>>) /\ acc.field # Operand(name).field)
             => err' = FieldMismatch]_vars

\* C13: two elements compare equal exactly when their values and their moduli
\* are the same
C13_EqualityNeedsModulus ==
    [][\A name \in {"x", "y"} :
          ops' = Append(ops, <<"eq", name>>)
             => (cmp' = "true" <=>
                    (acc.num = Operand(name).num /\ acc.field = Operand(name).field))]_vars

\* C14: dividing by the zero element fails, and inverting the zero element fails
C14_ZeroRejected ==
    [][/\ \A name \in {"x", "y"} :
             (ops' = Append(ops, <<"div", name>>) /\ Operand(name).num = 0) => err' # ""
       /\ (ops' = Append(ops, <<"inverse", "">>) /\ acc.num = 0) => err' # ""]_vars

\* C15: the n-th successful pull returns the n-th pushed object and moves the read
\* cursor from n-1 to n; a pull issued when the cursor equals the number of pushed
\* objects fails and leaves the log and the cursor as they were
C15_PullFifoBounded ==
    LET succeeded == {k \in 1..Len(pulls) : pulls[k].obj # None}
    IN /\ \A k \in 1..Len(pulls) :
             /\ pulls[k].call.at <= pulls[k].call.len
             /\ k \in succeeded <=> pulls[k].call.at < pulls[k].call.len
             /\ k \in succeeded =>
                   /\ \A j \in 1..k : j \in succeeded
                   /\ pulls[k].call.at = k - 1
                   /\ k <= Len(transcript.objects)
                   /\ pulls[k].obj = Some(transcript.objects[k])
             /\ k \notin succeeded =>
                   /\ k = Len(pulls)
                   /\ err = EmptyQueue
                   /\ transcript.read_index = pulls[k].call.at
                   /\ Len(transcript.objects) = pulls[k].call.len
       /\ transcript.read_index = Cardinality(succeeded)

\* two objects were pushed, both were pulled in order, and a third pull failed
C15_Witness ==
    /\ Len(pulls) = 3
    /\ pulls[1].obj # None
    /\ pulls[2].obj # None
    /\ pulls[1].obj # pulls[2].obj
    /\ pulls[3].obj = None
    /\ err = EmptyQueue

Gcd(a, b) ==
    CHOOSE d \in 1..a :
       /\ a % d = 0
       /\ b % d = 0
       /\ \A e \in 1..a : (a % e = 0 /\ b % e = 0) => e <= d

\* C16: for positive a and b, extended_euclidean_algorithm(a, b) is (g, s, t) with
\* g = gcd(a, b) and a*s + b*t = g; (101, 13) gives (1, 4, -31) and (69, 54)
\* gives (3, -7, 9)
C16_Bezout ==
    euclid.called =>
       LET g == euclid.result[1]
           ss == euclid.result[2]
           t == euclid.result[3]
       IN /\ g = Gcd(euclid.a, euclid.b)
          /\ euclid.a * ss + euclid.b * t = g
          /\ (euclid.a = 101 /\ euclid.b = 13) => euclid.result = <<1, 4, -31>>
          /\ (euclid.a = 69 /\ euclid.b = 54) => euclid.result = <<3, -7, 9>>

\* the algorithm was applied to (69, 54)
C16_Witness ==
    /\ euclid.called
    /\ euclid.a = 69
    /\ euclid.b = 54
    /\ euclid.result = <<3, -7, 9>>

\* c_i * x^i + ... + c_n * x^n mod p, for the coefficients from position i on
\* (positions from one, exponents from zero)
RECURSIVE SumFrom(_, _, _, _)
SumFrom(coeffs, i, xnum, p) ==
    IF i > Len(coeffs)
    THEN 0
    ELSE (coeffs[i].num * pow_mod(xnum, i - 1, p) + SumFrom(coeffs, i + 1, xnum, p)) % p

\* C17: evaluate(x) is the sum of c_i * x^i mod p, 0 for the empty polynomial;
\* evaluate_domain gives one such value per domain point, in domain order;
\* [1,2,3] mod 97 at 5 gives 86
C17_Evaluation ==
    evaluated.called =>
       LET field == EvalField(evaluated.self)
       IN /\ Len(evaluated.output) = Len(evaluated.domain)
          /\ \A k \in 1..Len(evaluated.domain) :
                /\ evaluated.output[k].num =
                      SumFrom(evaluated.self.coeffs, 1, evaluated.domain[k].num, field.prime)
                /\ evaluated.output[k].field = field
                /\ evaluated.self.coeffs = <<>> => evaluated.output[k].num = 0
                /\ (Nums(evaluated.self) = <<1, 2, 3>> /\ field.prime = 97
                       /\ evaluated.domain[k].num = 5)
                      => evaluated.output[k].num = 86

\* [1,2,3] mod 97 was evaluated over the domain (5, 0, 5)
C17_Witness ==
    /\ evaluated.called
    /\ evaluated.fn = "evaluate_domain"
    /\ Nums(evaluated.self) = <<1, 2, 3>>
    /\ EvalField(evaluated.self).prime = 97
    /\ [k \in 1..Len(evaluated.domain) |-> evaluated.domain[k].num] = <<5, 0, 5>>
    /\ [k \in 1..Len(evaluated.output) |-> evaluated.output[k].num] = <<86, 1, 86>>

(***************************************************************************)
(* Claims about the protocol                                               *)
(***************************************************************************)
Committed == phase # "Uninitialized"

\* the arguments of the last fri_commit were a polynomial of 2^L coefficients,
\* L >= 1 layers and a domain of at least L points
ValidCommit ==
    /\ Committed
    /\ number_layers >= 1
    /\ Len(fri_layers[1].polynomial.coeffs) = IntPow(2, number_layers)
    /\ Len(fri_layers[1].domain) >= number_layers

\* fri_query_phase ran on the committed layers with Q >= 1 queries over the
\* size of the committed domain, as main.rs calls it
ValidQuery ==
    /\ phase = "Queried"
    /\ query_in.number_of_queries >= 1
    /\ query_in.domain_size = Len(fri_layers[1].domain)

\* C1: an honest commit, query, verify sequence on a polynomial of 2^L
\* coefficients, L >= 1, and a domain of at least L points ends with verify_fri
\* returning true.
C1_HonestRoundTrip ==
    (ValidCommit /\ ValidQuery /\ tampers = <<>> /\ verified # "none") => verified = "true"

\* C2: after an honest commit and query, replacing one stored evaluation by a
\* different field element, or one Merkle proof by a different or missing proof,
\* makes verify_fri return false.
C2_TamperSensitivity ==
    (/\ ValidCommit
     /\ ValidQuery
     /\ Len(tampers) = 1
     /\ tampers[1].what \in {"evaluation", "proof"}
     /\ verified # "none") => verified = "false"

Present(s, i) == i <= Len(s)

\* the checks of verify_fri as the claim words them, on the state verify_fri saw
ProofsValidate(d, i) ==
    /\ Present(d.layers_auth_paths, i)
    /\ d.layers_auth_paths[i] # None
    /\ validate(d.layers_auth_paths[i][1], root_hash(fri_layers[i].merkle_tree))
    /\ Present(d.layers_auth_paths_sym, i)
    /\ d.layers_auth_paths_sym[i] # None
    /\ validate(d.layers_auth_paths_sym[i][1], root_hash(fri_layers[i].merkle_tree))

FoldMatches(d, i) ==
    /\ Present(d.layers_evaluations, i + 1)
    /\ Present(d.layers_evaluations_sym, i)
    /\ ~verifier_panics(transcript)
    /\ verifier_preimage(transcript) \in DOMAIN oracle
    /\ LET eval == d.layers_evaluations[i]
           eval_sym == d.layers_evaluations_sym[i]
           alpha == from_bytes(oracle[verifier_preimage(transcript)], eval.field)
       IN /\ ~fold_polynomial_evaluation_panics(eval, eval_sym, alpha)
          /\ fold_polynomial_evaluation(eval, eval_sym, alpha).num
                = d.layers_evaluations[i + 1].num

AllChecksPass ==
    \A q \in 1..Len(decommitments) : \A i \in 1..Len(fri_layers) :
       /\ ProofsValidate(decommitments[q], i)
       /\ i < Len(fri_layers) => FoldMatches(decommitments[q], i)

\* C3: when the read cursor is k, 1 <= k <= number of pushed objects,
\* verifier_fiat_shamir returns the field element prover_fiat_shamir returned
\* when the log held the first k objects.
C3_ChallengeAgreement ==
    (/\ vchallenge.called
     /\ vchallenge.at >= 1
     /\ vchallenge.at \in DOMAIN pchallenge)
    => (vchallenge.ok /\ vchallenge.value = pchallenge[vchallenge.at])

\* C4: verify_fri returns true exactly when every decommitment passes both
\* Merkle checks at every layer and the fold check at every layer but the last,
\* and returns false as soon as one check fails.
C4_VerifyIff ==
    verified # "none" =>
       /\ (verified = "true") <=> AllChecksPass
       /\ ~AllChecksPass => verified = "false"

\* C5: verify_fri returns true only after fri_commit and then fri_query_phase ran.
C5_PhaseOrdering == verified = "true" => phase = "Queried"

\* C6: verify_fri ends with true or false for every layer list, decommitment
\* list and transcript, and never aborts.
C6_VerifyNeverAborts == verified # "panic"

\* the state holds what the last fri_query_phase call returned, or its panic
QueryCalled == query_in # NoQuery /\ tampers = <<>>

QueryFailed == err = RemainderByZero

Shape(d, n) ==
    /\ Len(d.layers_evaluations) = n
    /\ Len(d.layers_evaluations_sym) = n
    /\ Len(d.layers_auth_paths) = n
    /\ Len(d.layers_auth_paths_sym) = n
    /\ n = Len(fri_layers) =>
          \A i \in 1..n : \A a \in {d.layers_auth_paths[i], d.layers_auth_paths_sym[i]} :
             a # None => a[1].root_hash = root_hash(fri_layers[i].merkle_tree)

QueryShape ==
    /\ ~QueryFailed
    /\ Len(decommitments) = query_in.number_of_queries
    /\ \A q \in 1..Len(decommitments) : Shape(decommitments[q], query_in.layers)

QueriedCommitted ==
    /\ phase = "Queried"
    /\ QueryCalled
    /\ ~QueryFailed
    /\ query_in.domain_size = Len(commit_in.domain)

\* C22: for layers produced by fri_commit with L >= 2 on a domain of size N,
\* and every query index in [0, N), fri_query_phase obtains from every layer a
\* present inclusion proof for the query index and for the paired index
\* (index + N/2) mod N
C22_OpenedPositionsExist ==
    (QueriedCommitted /\ number_layers >= 2) =>
       \A q \in 1..Len(decommitments) : \A i \in 1..Len(fri_layers) :
          /\ decommitments[q].layers_auth_paths[i] # None
          /\ decommitments[q].layers_auth_paths_sym[i] # None

\* the leaf a present proof authenticates is the reported evaluation
Bound(proof, evaluation) == proof # None => proof[1].value = evaluation

\* C23: in every decommitment fri_query_phase produced from committed layers,
\* at every layer the leaf value the primary proof authenticates equals the
\* reported primary evaluation and the leaf value the symmetric proof
\* authenticates equals the reported symmetric evaluation
C23_OpeningsBound ==
    QueriedCommitted =>
       \A q \in 1..Len(decommitments) : \A i \in 1..Len(fri_layers) :
          /\ Bound(decommitments[q].layers_auth_paths[i],
                   decommitments[q].layers_evaluations[i])
          /\ Bound(decommitments[q].layers_auth_paths_sym[i],
                   decommitments[q].layers_evaluations_sym[i])

(***************************************************************************)
(* Claims about fri_commit                                                 *)
(***************************************************************************)

\* the 16-byte big-endian encoding of a value below 256
Encoding(v) == Bytes([k \in 1..16 |-> IF k = 16 THEN v.num ELSE 0])

\* what a fri_commit that returned n layers appended: their roots in order, then
\* the final constant; the earlier objects and the cursor are as they were
CommitAppended(n) ==
    /\ Len(fri_layers) = n
    /\ transcript.objects =
          commit_in.transcript.objects
             \o [k \in 1..n |-> root_hash(fri_layers[k].merkle_tree)]
             \o <<Encoding(last_value)>>
    /\ Len(transcript.objects) = Len(commit_in.transcript.objects) + n + 1
    /\ transcript.read_index = commit_in.transcript.read_index

LogAt(i) ==
    [objects |-> commit_in.transcript.objects
                    \o [k \in 1..i |-> root_hash(fri_layers[k].merkle_tree)],
     read_index |-> commit_in.transcript.read_index]

\* prover_fiat_shamir was taken over that transcript
DerivedAt(i) == prover_preimage(LogAt(i)) \in DOMAIN oracle

\* and gave this challenge
AlphaAt(i) == from_bytes(oracle[prover_preimage(LogAt(i))], commit_in.p_0.coeffs[1].field)

\* layer 0 holds p_0 and each later layer the fold of the layer before it
LayersChained ==
    /\ fri_layers[1].polynomial = commit_in.p_0
    /\ \A i \in 1..(Len(fri_layers) - 1) :
          /\ DerivedAt(i)
          /\ fri_layers[i + 1].polynomial =
                fold_polynomial(fri_layers[i].polynomial, AlphaAt(i))

\* C20: layer 0 holds the input polynomial; layer i is fold_polynomial of layer
\* i-1 with the challenge taken when the transcript held exactly the roots of
\* layers 0..i-1 after the earlier objects; the final constant is the first
\* coefficient of the fold of layer L-1 with the challenge taken after all L roots
C20_LayerChaining ==
    (Committed /\ number_layers >= 1) =>
       /\ Len(fri_layers) = number_layers
       /\ LayersChained
       /\ DerivedAt(number_layers)
       /\ LET last_poly ==
                 fold_polynomial(fri_layers[number_layers].polynomial, AlphaAt(number_layers))
          IN /\ Len(last_poly.coeffs) >= 1
             /\ last_value = last_poly.coeffs[1]

\* the polynomial fri_commit folds last: the one of the last layer, with the
\* last challenge it derived
LastFold ==
    fold_polynomial(fri_layers[Len(fri_layers)].polynomial, alphas[Len(alphas)])

\* C21: whenever fri_commit returns, the polynomial obtained by the last fold
\* has exactly one coefficient and the returned final constant is that
\* coefficient; it returns nothing when the last fold has no coefficient or
\* more than one
C21_FinalFoldConstant ==
    Committed =>
       /\ Len(LastFold.coeffs) = 1
       /\ last_value = LastFold.coeffs[1]

(***************************************************************************)
(* Claims about the fold check                                             *)
(***************************************************************************)

\* C24: for an odd prime p, a polynomial P with an even number of
\* coefficients, a challenge alpha, a generator g and a layer index i, with
\* P' = fold_polynomial(P, alpha), fold_polynomial_evaluation(P(g^(i+1)),
\* P(-g^(i+1)), alpha) equals P'(g^(i+2)), and its result r satisfies
\* 2*r = (eval + eval_sym) + alpha*(eval - eval_sym) mod p
C24_FoldIdentity ==
    folded.called =>
       /\ folded.folded_value = folded.next_eval
       /\ (2 * folded.folded_value.num) % folded.alpha.field.prime
             = ((folded.eval.num + folded.eval_sym.num)
                  + folded.alpha.num * (folded.eval.num - folded.eval_sym.num))
               % folded.alpha.field.prime

(***************************************************************************)
(* Claims about the phases                                                 *)
(***************************************************************************)

\* the step is a call of fri_commit: it returns, or panics, in the only phase
\* where fri_query_phase and verify_fri cannot panic
FriCommitStep == phase = "Uninitialized" /\ (phase' = "Committed" \/ err' # err)

\* C25: fri_query_phase and verify_fri leave the layer list and the
\* transcript's log and read cursor unchanged; across every step the log only
\* grows by appending at its end, the read cursor never decreases and stays
\* between 0 and the number of logged objects
C25_ReadOnlyPhases ==
    [][/\ ~FriCommitStep => (transcript' = transcript /\ fri_layers' = fri_layers)
       /\ Len(transcript'.objects) >= Len(transcript.objects)
       /\ SubSeq(transcript'.objects, 1, Len(transcript.objects)) = transcript.objects
       /\ transcript'.read_index >= transcript.read_index
       /\ 0 <= transcript'.read_index
       /\ transcript'.read_index <= Len(transcript'.objects)]_vars

\* two layers were committed on a transcript holding two objects, one of
\* them read, one position was opened and verify_fri has ended
C25_Witness ==
    /\ phase = "Queried"
    /\ verified # "none"
    /\ Len(fri_layers) = 2
    /\ Len(decommitments) = 1
    /\ Len(transcript.objects) = 5
    /\ transcript.read_index = 1

(***************************************************************************)
(* Claims about the reduction of bytes                                     *)
(***************************************************************************)

\* the big-endian unsigned value of all the bytes of d, modulo m
RECURSIVE UnsignedMod(_, _)
UnsignedMod(d, m) ==
    IF d = <<>>
    THEN 0
    ELSE (256 * UnsignedMod(SubSeq(d, 1, Len(d) - 1), m) + d[Len(d)]) % m

\* C26: for every byte sequence d and prime p, the field element from_bytes
\* derives from d, and the one sample derives from d, is the big-endian
\* unsigned value of all the bytes of d reduced modulo p
C26_DigestReduction ==
    reduced.called =>
       reduced.output =
          Some(FieldElement_new(UnsignedMod(reduced.bytes, reduced.field.prime),
                                reduced.field))

(***************************************************************************)
(* Claims about primitive_nth_root                                         *)
(***************************************************************************)

\* a^k modulo m
RECURSIVE Power(_, _, _)
Power(a, k, m) == IF k = 0 THEN 1 % m ELSE (a * Power(a, k - 1, m)) % m

\* the multiplicative order of e is n
HasOrder(e, n) ==
    /\ Power(e.num, n, e.field.prime) = 1 % e.field.prime
    /\ \A k \in 1..(n - 1) : Power(e.num, k, e.field.prime) # 1 % e.field.prime

Returned == nth.called /\ nth.pc = "return"

\* C27: for every n >= 1 that is a power of two, primitive_nth_root(n)
\* finishes after finitely many squarings and returns a field element whose
\* multiplicative order is n
C27_RootTerminates == <>Returned /\ [](Returned => HasOrder(nth.root, nth.n))

(***************************************************************************)
(* Claims about the challenges                                             *)
(***************************************************************************)

\* verify_fri hashed the object at the read cursor: it derived a challenge
VerifierAsked == verifier_preimage(transcript) \in DOMAIN oracle

\* the challenge verify_fri derives, at every round, from the transcript it holds
VerifierChallenge == from_bytes(oracle[verifier_preimage(transcript)], FriField)

\* C19: on the transcript of an honest commit, the challenge verify_fri derives
\* for the check between layer 0 and layer 1 is the challenge fri_commit folded
\* layer 0 with
C19_ChallengeReplay ==
    (/\ ValidCommit
     /\ ValidQuery
     /\ tampers = <<>>
     /\ number_layers >= 2
     /\ verified # "none"
     /\ VerifierAsked)
    => VerifierChallenge = alphas[1]

====
